---- MODULE Spec2Model ----
(***************************************************************************)
(* Model of App::App() in example/windows/datePickerTest/App.cpp, the      *)
(* constructor that configures the sample application's React host.        *)
(*                                                                         *)
(* The constructor is a straight line of setter calls whose shape is       *)
(* chosen by two preprocessor conditionals, #if BUNDLE and #if _DEBUG.     *)
(* Every statement of the constructor is one action.  The model runs the   *)
(* constructor of two separately compiled builds side by side, each with   *)
(* its own values of the two macros, so that statements relating two       *)
(* builds can be made about one state.  Both builds are builds of the same  *)
(* project, so the native module packages that autolinking discovers are   *)
(* the same for both.                                                      *)
(***************************************************************************)
EXTENDS Naturals, Sequences, FiniteSets

\* Largest integer value a macro is defined to (the values 0..MaxMacroValue
\* and "not defined" are the macro settings explored).
MaxMacroValue == 1

\* Largest number of native module packages autolinking discovers.
MaxAutolinked == 1

\* The builds whose constructors are run.
Builds == {"build1", "build2"}

VARIABLES
    BUNDLE,     \* per build: the definition of the macro BUNDLE
    _DEBUG,     \* per build: the definition of the macro _DEBUG
    pc,         \* per build: the next statement of App::App() to execute
    app,        \* per build: the application object's configuration
    calls,      \* per build: the calls App::App() has made so far, in order
    discovered  \* the number of native module packages autolinking discovered
                \* when the project was built

vars == <<BUNDLE, _DEBUG, pc, app, calls, discovered>>

\* A field nobody has written yet, and a field holding v.
None == << >>
Some(v) == <<v>>

\* A macro is either not defined or defined to an integer.
MacroDefinitions ==
    {[defined |-> FALSE, value |-> 0]}
        \cup {[defined |-> TRUE, value |-> n] : n \in 0..MaxMacroValue}

\* #if M : an identifier that is not a defined macro evaluates to 0, and the
\* group is taken when the controlling expression is nonzero.
IfDirective(m) == (IF m.defined THEN m.value ELSE 0) # 0

\* The provider handles the constructor creates.
ProjectProvider == "ReactPackageProvider"
DateTimePickerProvider == "DateTimePicker::ReactPackageProvider"

\* The provider handles of the packages autolinking can discover, in the
\* order the generated code registers them.
AutolinkedPackagePool ==
    <<"Autolinked1::ReactPackageProvider",
      "Autolinked2::ReactPackageProvider",
      "Autolinked3::ReactPackageProvider">>

\* Providers appended by the expansion of REACT_REGISTER_NATIVE_MODULE_PACKAGES
\* when n packages were discovered.  The expansion is generated at build time
\* and is not in the source tree; by its description it registers every native
\* module package discovered at build time, which may be none.
AutolinkedProviders(n) == SubSeq(AutolinkedPackagePool, 1, n)

\* The application object before the constructor body runs.
NewApp ==
    [MainComponentName |-> None,
     JavaScriptBundleFile |-> None,
     JavaScriptMainModuleName |-> None,
     InstanceSettings |-> [UseWebDebugger |-> None,
                           UseFastRefresh |-> None,
                           EnableDeveloperMenu |-> None],
     PackageProviders |-> << >>,
     ComponentInitialized |-> FALSE]

Statements ==
    {"MainComponentName", "BundleSource", "UseWebDebugger", "UseFastRefresh",
     "EnableDeveloperMenu", "AppendProjectProvider", "AppendDateTimePickerProvider",
     "RegisterNativeModulePackages", "InitializeComponent", "done"}

Init ==
    /\ BUNDLE \in [Builds -> MacroDefinitions]
    /\ _DEBUG \in [Builds -> MacroDefinitions]
    /\ pc = [b \in Builds |-> "MainComponentName"]
    /\ app = [b \in Builds |-> NewApp]
    /\ calls = [b \in Builds |-> << >>]
    /\ discovered \in 0..MaxAutolinked

\* Build b makes the call named fn and moves on to statement next.
Step(b, fn, next) ==
    /\ calls' = [calls EXCEPT ![b] = Append(@, fn)]
    /\ pc' = [pc EXCEPT ![b] = next]
    /\ UNCHANGED <<BUNDLE, _DEBUG, discovered>>

\* Variant: the entry point is named after the bundle in bundle builds.
SetMainComponentNameWrong(b) ==
    /\ pc[b] = "MainComponentName"
    /\ app' = [app EXCEPT ![b].MainComponentName =
                  Some(IF IfDirective(BUNDLE[b]) THEN "index.windows" ELSE "example")]
    /\ Step(b, "MainComponentName", "BundleSource")

\* MainComponentName(L"example");
SetMainComponentName(b) ==
    /\ pc[b] = "MainComponentName"
    /\ app' = [app EXCEPT ![b].MainComponentName = Some("example")]
    /\ Step(b, "MainComponentName", "BundleSource")

\* Variant: the bundle name lacks its platform suffix.
SetJavaScriptBundleFileWrong(b) ==
    /\ pc[b] = "BundleSource"
    /\ IfDirective(BUNDLE[b])
    /\ app' = [app EXCEPT ![b].JavaScriptBundleFile = Some("index")]
    /\ Step(b, "JavaScriptBundleFile", "UseWebDebugger")

\* #if BUNDLE: JavaScriptBundleFile(L"index.windows");
SetJavaScriptBundleFile(b) ==
    /\ pc[b] = "BundleSource"
    /\ IfDirective(BUNDLE[b])
    /\ app' = [app EXCEPT ![b].JavaScriptBundleFile = Some("index.windows")]
    /\ Step(b, "JavaScriptBundleFile", "UseWebDebugger")

\* Variant: the development branch also names a bundle file.
SetJavaScriptMainModuleNameBoth(b) ==
    /\ pc[b] = "BundleSource"
    /\ ~IfDirective(BUNDLE[b])
    /\ app' = [app EXCEPT ![b].JavaScriptMainModuleName = Some("example/index"),
                          ![b].JavaScriptBundleFile = Some("index.windows")]
    /\ Step(b, "JavaScriptMainModuleName", "UseWebDebugger")

\* #else: JavaScriptMainModuleName(L"example/index");
SetJavaScriptMainModuleName(b) ==
    /\ pc[b] = "BundleSource"
    /\ ~IfDirective(BUNDLE[b])
    /\ app' = [app EXCEPT ![b].JavaScriptMainModuleName = Some("example/index")]
    /\ Step(b, "JavaScriptMainModuleName", "UseWebDebugger")

\* #if BUNDLE: InstanceSettings().UseWebDebugger(false);
UseWebDebuggerOff(b) ==
    /\ pc[b] = "UseWebDebugger"
    /\ IfDirective(BUNDLE[b])
    /\ app' = [app EXCEPT ![b].InstanceSettings.UseWebDebugger = Some(FALSE)]
    /\ Step(b, "UseWebDebugger", "UseFastRefresh")

\* Variant: the development branch switches the debugger off.
UseWebDebuggerOnWrong(b) ==
    /\ pc[b] = "UseWebDebugger"
    /\ ~IfDirective(BUNDLE[b])
    /\ app' = [app EXCEPT ![b].InstanceSettings.UseWebDebugger = Some(FALSE)]
    /\ Step(b, "UseWebDebugger", "UseFastRefresh")

\* #else: InstanceSettings().UseWebDebugger(true);
UseWebDebuggerOn(b) ==
    /\ pc[b] = "UseWebDebugger"
    /\ ~IfDirective(BUNDLE[b])
    /\ app' = [app EXCEPT ![b].InstanceSettings.UseWebDebugger = Some(TRUE)]
    /\ Step(b, "UseWebDebugger", "UseFastRefresh")

\* Variant: the bundle branch repeats the UseWebDebugger call.
UseFastRefreshOffRepeat(b) ==
    /\ pc[b] = "UseFastRefresh"
    /\ IfDirective(BUNDLE[b])
    /\ app' = [app EXCEPT ![b].InstanceSettings.UseWebDebugger = Some(FALSE)]
    /\ Step(b, "UseWebDebugger", "EnableDeveloperMenu")

\* #if BUNDLE: InstanceSettings().UseFastRefresh(false);
UseFastRefreshOff(b) ==
    /\ pc[b] = "UseFastRefresh"
    /\ IfDirective(BUNDLE[b])
    /\ app' = [app EXCEPT ![b].InstanceSettings.UseFastRefresh = Some(FALSE)]
    /\ Step(b, "UseFastRefresh", "EnableDeveloperMenu")

\* #else: InstanceSettings().UseFastRefresh(true);
UseFastRefreshOn(b) ==
    /\ pc[b] = "UseFastRefresh"
    /\ ~IfDirective(BUNDLE[b])
    /\ app' = [app EXCEPT ![b].InstanceSettings.UseFastRefresh = Some(TRUE)]
    /\ Step(b, "UseFastRefresh", "EnableDeveloperMenu")

\* Variant: the debug branch also switches fast refresh on.
EnableDeveloperMenuOnLeaky(b) ==
    /\ pc[b] = "EnableDeveloperMenu"
    /\ IfDirective(_DEBUG[b])
    /\ app' = [app EXCEPT ![b].InstanceSettings.EnableDeveloperMenu = Some(TRUE),
                          ![b].InstanceSettings.UseFastRefresh = Some(TRUE)]
    /\ Step(b, "EnableDeveloperMenu", "AppendProjectProvider")

\* #if _DEBUG: InstanceSettings().EnableDeveloperMenu(true);
EnableDeveloperMenuOn(b) ==
    /\ pc[b] = "EnableDeveloperMenu"
    /\ IfDirective(_DEBUG[b])
    /\ app' = [app EXCEPT ![b].InstanceSettings.EnableDeveloperMenu = Some(TRUE)]
    /\ Step(b, "EnableDeveloperMenu", "AppendProjectProvider")

\* Variant: the non-debug branch switches the menu on.
EnableDeveloperMenuOffWrong(b) ==
    /\ pc[b] = "EnableDeveloperMenu"
    /\ ~IfDirective(_DEBUG[b])
    /\ app' = [app EXCEPT ![b].InstanceSettings.EnableDeveloperMenu = Some(TRUE)]
    /\ Step(b, "EnableDeveloperMenu", "AppendProjectProvider")

\* #else: InstanceSettings().EnableDeveloperMenu(false);
EnableDeveloperMenuOff(b) ==
    /\ pc[b] = "EnableDeveloperMenu"
    /\ ~IfDirective(_DEBUG[b])
    /\ app' = [app EXCEPT ![b].InstanceSettings.EnableDeveloperMenu = Some(FALSE)]
    /\ Step(b, "EnableDeveloperMenu", "AppendProjectProvider")

\* PackageProviders().Append(make<ReactPackageProvider>());
AppendProjectProvider(b) ==
    /\ pc[b] = "AppendProjectProvider"
    /\ app' = [app EXCEPT ![b].PackageProviders = Append(@, ProjectProvider)]
    /\ Step(b, "PackageProviders.Append", "AppendDateTimePickerProvider")

\* Variant: the date/time-picker provider is inserted at the front.
AppendDateTimePickerProviderFront(b) ==
    /\ pc[b] = "AppendDateTimePickerProvider"
    /\ app' = [app EXCEPT ![b].PackageProviders = <<DateTimePickerProvider>> \o @]
    /\ Step(b, "PackageProviders.Append", "RegisterNativeModulePackages")

\* PackageProviders().Append(winrt::DateTimePicker::ReactPackageProvider());
AppendDateTimePickerProvider(b) ==
    /\ pc[b] = "AppendDateTimePickerProvider"
    /\ app' = [app EXCEPT ![b].PackageProviders = Append(@, DateTimePickerProvider)]
    /\ Step(b, "PackageProviders.Append", "RegisterNativeModulePackages")

\* Variant: the registration macro is invoked twice.
RegisterNativeModulePackagesTwice(b) ==
    /\ pc[b] = "RegisterNativeModulePackages"
    /\ app' = [app EXCEPT ![b].PackageProviders = @ \o AutolinkedProviders(discovered)]
    /\ calls' = [calls EXCEPT ![b] =
                    @ \o <<"REACT_REGISTER_NATIVE_MODULE_PACKAGES",
                           "REACT_REGISTER_NATIVE_MODULE_PACKAGES">>]
    /\ pc' = [pc EXCEPT ![b] = "InitializeComponent"]
    /\ UNCHANGED <<BUNDLE, _DEBUG, discovered>>

\* REACT_REGISTER_NATIVE_MODULE_PACKAGES();
RegisterNativeModulePackages(b) ==
    /\ pc[b] = "RegisterNativeModulePackages"
    /\ app' = [app EXCEPT ![b].PackageProviders = @ \o AutolinkedProviders(discovered)]
    /\ Step(b, "REACT_REGISTER_NATIVE_MODULE_PACKAGES", "InitializeComponent")

\* Variant: InitializeComponent may also run before the registration macro.
InitializeComponentEarly(b) ==
    /\ pc[b] \in {"RegisterNativeModulePackages", "InitializeComponent"}
    /\ ~app[b].ComponentInitialized
    /\ app' = [app EXCEPT ![b].ComponentInitialized = TRUE]
    /\ Step(b, "InitializeComponent",
            IF pc[b] = "InitializeComponent" THEN "done" ELSE pc[b])

\* InitializeComponent();
InitializeComponent(b) ==
    /\ pc[b] = "InitializeComponent"
    /\ app' = [app EXCEPT ![b].ComponentInitialized = TRUE]
    /\ Step(b, "InitializeComponent", "done")

Next ==
    \E b \in Builds :
        \/ SetMainComponentName(b)
        \/ SetJavaScriptBundleFile(b)
        \/ SetJavaScriptMainModuleName(b)
        \/ UseWebDebuggerOff(b)
        \/ UseWebDebuggerOn(b)
        \/ UseFastRefreshOff(b)
        \/ UseFastRefreshOn(b)
        \/ EnableDeveloperMenuOn(b)
        \/ EnableDeveloperMenuOff(b)
        \/ AppendProjectProvider(b)
        \/ AppendDateTimePickerProvider(b)
        \/ RegisterNativeModulePackages(b)
        \/ InitializeComponent(b)

Spec == Init /\ [][Next]_vars

----------------------------------------------------------------------------
(* Vocabulary of the properties. *)

\* The build flag m is set: the macro is defined to a nonzero value.
MacroSet(m) == m.defined /\ m.value # 0

\* The constructor of build b has returned.
Done(b) == pc[b] = "done"

\* How many times the call named fn occurs in the call sequence s.
Count(s, fn) == Cardinality({i \in DOMAIN s : s[i] = fn})

\* The calls of s made before position i.
Before(s, i) == SubSeq(s, 1, i - 1)

Settings(b) == app[b].InstanceSettings

\* The bundle source of build b: the bundle name and the module path.
BundleSource(b) == <<app[b].JavaScriptBundleFile, app[b].JavaScriptMainModuleName>>

\* Two finished builds, one with _DEBUG set and one without, whose BUNDLE
\* flags are both set (on = TRUE) or both unset (on = FALSE).
BothDebugSettings(on) ==
    \E b1, b2 \in Builds :
        /\ Done(b1) /\ Done(b2)
        /\ MacroSet(BUNDLE[b1]) = on /\ MacroSet(BUNDLE[b2]) = on
        /\ MacroSet(_DEBUG[b1]) /\ ~MacroSet(_DEBUG[b2])

----------------------------------------------------------------------------
\* C1: with BUNDLE set, once App::App() has completed the bundle name is
\* "index.windows", UseWebDebugger is false and UseFastRefresh is false,
\* whatever _DEBUG is.
C1_ReleaseBundleConfiguration ==
    \A b \in Builds :
        Done(b) /\ MacroSet(BUNDLE[b]) =>
            /\ app[b].JavaScriptBundleFile = Some("index.windows")
            /\ Settings(b).UseWebDebugger = Some(FALSE)
            /\ Settings(b).UseFastRefresh = Some(FALSE)

C1_Witness ==
    /\ BothDebugSettings(TRUE)
    /\ \A b \in Builds : app[b].JavaScriptBundleFile # None

\* C2: with BUNDLE unset, once App::App() has completed the module path is
\* "example/index", UseWebDebugger is true and UseFastRefresh is true,
\* whatever _DEBUG is.
C2_DevelopmentConfiguration ==
    \A b \in Builds :
        Done(b) /\ ~MacroSet(BUNDLE[b]) =>
            /\ app[b].JavaScriptMainModuleName = Some("example/index")
            /\ Settings(b).UseWebDebugger = Some(TRUE)
            /\ Settings(b).UseFastRefresh = Some(TRUE)

C2_Witness ==
    /\ BothDebugSettings(FALSE)
    /\ \A b \in Builds : app[b].JavaScriptMainModuleName # None

\* C3: once App::App() has completed, EnableDeveloperMenu is true exactly
\* when _DEBUG is set, whatever BUNDLE is.
C3_DeveloperMenuIffDebug ==
    \A b \in Builds :
        Done(b) => Settings(b).EnableDeveloperMenu = Some(MacroSet(_DEBUG[b]))

C3_Witness ==
    \E b1, b2 \in Builds :
        /\ Done(b1) /\ Done(b2)
        /\ MacroSet(BUNDLE[b1]) /\ ~MacroSet(BUNDLE[b2])
        /\ MacroSet(_DEBUG[b1]) /\ ~MacroSet(_DEBUG[b2])
        /\ Settings(b1).EnableDeveloperMenu # Settings(b2).EnableDeveloperMenu

C5_ExactlyOneBundleSource ==
    \A b \in Builds :
        /\ ~(app[b].JavaScriptBundleFile # None /\ app[b].JavaScriptMainModuleName # None)
        /\ Done(b) =>
              /\ (app[b].JavaScriptBundleFile # None) <=> MacroSet(BUNDLE[b])
              /\ (app[b].JavaScriptMainModuleName # None) <=> ~MacroSet(BUNDLE[b])

C5_Witness ==
    \E b1, b2 \in Builds :
        /\ Done(b1) /\ Done(b2)
        /\ app[b1].JavaScriptBundleFile # None
        /\ app[b2].JavaScriptMainModuleName # None
        /\ MacroSet(_DEBUG[b1]) /\ MacroSet(_DEBUG[b2])

\* C6: InitializeComponent is the last step of App::App(): it comes after the
\* entry-point setter, the bundle/module selection, the debugger, live-reload
\* and developer-menu settings, both provider appends and the generated
\* registration step, and nothing is called after it.
C6_InitializeComponentLast ==
    \A b \in Builds :
        /\ Done(b) => Count(calls[b], "InitializeComponent") = 1
        /\ \A i \in DOMAIN calls[b] :
              calls[b][i] = "InitializeComponent" =>
                  /\ i = Len(calls[b])
                  /\ Done(b)
                  /\ Count(Before(calls[b], i), "MainComponentName") = 1
                  /\ Count(Before(calls[b], i), "JavaScriptBundleFile")
                       + Count(Before(calls[b], i), "JavaScriptMainModuleName") = 1
                  /\ Count(Before(calls[b], i), "UseWebDebugger") = 1
                  /\ Count(Before(calls[b], i), "UseFastRefresh") = 1
                  /\ Count(Before(calls[b], i), "EnableDeveloperMenu") = 1
                  /\ Count(Before(calls[b], i), "PackageProviders.Append") = 2
                  /\ Count(Before(calls[b], i), "REACT_REGISTER_NATIVE_MODULE_PACKAGES") = 1

C6_Witness ==
    \E b1, b2 \in Builds :
        /\ app[b1].ComponentInitialized /\ app[b2].ComponentInitialized
        /\ MacroSet(BUNDLE[b1]) /\ ~MacroSet(BUNDLE[b2])
        /\ ~MacroSet(_DEBUG[b1]) /\ MacroSet(_DEBUG[b2])

\* C7: the generated registration step is invoked exactly once per
\* initialization, after both explicit provider appends and before
\* InitializeComponent.
C7_RegistrationOnceBetween ==
    \A b \in Builds :
        /\ Count(calls[b], "REACT_REGISTER_NATIVE_MODULE_PACKAGES") <= 1
        /\ Done(b) => Count(calls[b], "REACT_REGISTER_NATIVE_MODULE_PACKAGES") = 1
        /\ \A i \in DOMAIN calls[b] :
              calls[b][i] = "REACT_REGISTER_NATIVE_MODULE_PACKAGES" =>
                  /\ Count(Before(calls[b], i), "PackageProviders.Append") = 2
                  /\ Count(Before(calls[b], i), "InitializeComponent") = 0
                  /\ Count(calls[b], "PackageProviders.Append") = 2

C7_Witness ==
    \E b1, b2 \in Builds :
        /\ Done(b1)
        /\ pc[b2] = "InitializeComponent"
        /\ Count(calls[b1], "REACT_REGISTER_NATIVE_MODULE_PACKAGES") = 1
        /\ Count(calls[b2], "REACT_REGISTER_NATIVE_MODULE_PACKAGES") = 1

\* One step of the model keeps build b's configuration write-once.
WriteOnceStep(b) ==
    /\ Count(calls'[b], "MainComponentName") <= 1
    /\ Count(calls'[b], "JavaScriptBundleFile")
         + Count(calls'[b], "JavaScriptMainModuleName") <= 1
    /\ Count(calls'[b], "UseWebDebugger") <= 1
    /\ Count(calls'[b], "UseFastRefresh") <= 1
    /\ Count(calls'[b], "EnableDeveloperMenu") <= 1
    /\ app[b].MainComponentName # None =>
          app'[b].MainComponentName = app[b].MainComponentName
    /\ BundleSource(b) # <<None, None>> => BundleSource(b)' = BundleSource(b)
    /\ \A f \in DOMAIN Settings(b) :
          Settings(b)[f] # None => Settings(b)'[f] = Settings(b)[f]
    /\ Done(b) => app'[b] = app[b] /\ calls'[b] = calls[b]

\* C8: the configuration fields are write-once: in a run of App::App() the
\* entry-point name, the bundle source, the debugger flag, the live-reload flag
\* and the developer-menu flag are each written at most once, a written field
\* never changes, and nothing changes once the sequence has completed.
C8_WriteOnce == [][\A b \in Builds : WriteOnceStep(b)]_vars

C8_Witness ==
    \E b1, b2 \in Builds :
        /\ Done(b1)
        /\ pc[b2] = "AppendProjectProvider"
        /\ MacroSet(BUNDLE[b1]) /\ ~MacroSet(BUNDLE[b2])
        /\ \A f \in DOMAIN Settings(b2) : Settings(b2)[f] # None

\* C9: MainComponentName is set to "example" in all four combinations of the
\* two flags, and it is the first configuration write of the sequence.
C9_MainComponentNameFirst ==
    \A b \in Builds :
        /\ calls[b] = << >> => app[b] = NewApp
        /\ calls[b] # << >> =>
              /\ calls[b][1] = "MainComponentName"
              /\ app[b].MainComponentName = Some("example")

C9_Witness ==
    \E b1, b2 \in Builds :
        /\ Done(b1) /\ Done(b2)
        /\ MacroSet(BUNDLE[b1]) /\ ~MacroSet(BUNDLE[b2])
        /\ MacroSet(_DEBUG[b1]) = MacroSet(_DEBUG[b2])
        /\ app[b1].MainComponentName = app[b2].MainComponentName

\* C10: the two flags act independently: two runs that differ only in _DEBUG
\* end with the same bundle source, debugger flag, live-reload flag and
\* provider list; two runs that differ only in BUNDLE end with the same
\* developer-menu flag and provider list.
C10_FlagsIndependent ==
    \A b1, b2 \in Builds :
        Done(b1) /\ Done(b2) =>
            /\ BUNDLE[b1] = BUNDLE[b2] =>
                  /\ BundleSource(b1) = BundleSource(b2)
                  /\ Settings(b1).UseWebDebugger = Settings(b2).UseWebDebugger
                  /\ Settings(b1).UseFastRefresh = Settings(b2).UseFastRefresh
                  /\ app[b1].PackageProviders = app[b2].PackageProviders
            /\ _DEBUG[b1] = _DEBUG[b2] =>
                  /\ Settings(b1).EnableDeveloperMenu = Settings(b2).EnableDeveloperMenu
                  /\ app[b1].PackageProviders = app[b2].PackageProviders

C10_Witness ==
    \E b1, b2 \in Builds :
        /\ Done(b1) /\ Done(b2)
        /\ BUNDLE[b1] = BUNDLE[b2]
        /\ MacroSet(BUNDLE[b1])
        /\ MacroSet(_DEBUG[b1]) /\ ~MacroSet(_DEBUG[b2])
        /\ Settings(b1).EnableDeveloperMenu # Settings(b2).EnableDeveloperMenu

====
